---- MODULE Spec2Model ----
(***************************************************************************)
(* Ticket lifecycle of bot.py: the store (tickets, transcripts,            *)
(* archived_tickets, ticket_stats, users), the guild (channels, category   *)
(* containers, members) and the coroutines that act on them.  Every        *)
(* coroutine is a process whose steps are cut at its awaits: one step      *)
(* holds at most one access to the store or one call to the platform.      *)
(* Time is counted in days and kept relative to the present: a timestamp   *)
(* is a number of days from now, NOW() is 0, and a day that passes makes   *)
(* every stored timestamp one day older.                                   *)
(***************************************************************************)
EXTENDS Integers, Sequences, FiniteSets, TLC

\* ---------------------------------------------------------------- bounds
MaxRunning == 2         \* coroutines in flight at the same time
MaxConnections == 2     \* connections of the pool (max_size)
MaxEvents == 3          \* external events: interactions, messages, admin acts
MaxChannels == 2        \* channels the guild ever creates for tickets
MaxChannelsAll == 1     \* the same, where every operation is enabled
MaxClaimEvents == 4     \* external events where claims are studied
MaxStartupEvents == 1   \* external events while on_ready runs
MaxCrashEvents == 3     \* external events, crashes among them, around the loops
StatsDays == 2          \* days of ticket_stats the model keeps (today, yesterday)

\* ------------------------------------------------------ program constants
INACTIVE_CLOSE_DAYS == 3
ARCHIVE_DELETE_DAYS == 10

NOW == 0                \* NOW() and datetime.now(): the present day
NULL == "NULL"
Bot == "bot"
GuildMembers == {"u1", "s1", "s2"}
STAFF_ROLES == {"CREW"}           \* a role name of the list stands for all
TICKET_CATEGORIES == {"reportBug"}
TicketIds == <<"A", "B">>         \* values generate_ticket_id can return
ArchiveName == "Archived Tickets"
TaskList == <<"t1", "t2">>        \* event-loop tasks running handlers
Tasks == {TaskList[i] : i \in DOMAIN TaskList}
AC == "auto_close"                \* the task of the inactivity loop
DEL == "delete_archived"          \* the task of the deletion loop
Procs == Tasks \cup {AC, DEL}
Closers == Tasks \cup {AC}

VARIABLES
    members,      \* members currently in the guild
    users,        \* table users (keys)
    tickets,      \* table tickets: channel_id -> row
    transcripts,  \* table transcripts: channel_id -> row
    archived,     \* table archived_tickets: channel_id -> row
    stats,        \* table ticket_stats: date -> row
    channels,     \* guild text channels: id -> [category, allow, deny, controls]
    categories,   \* guild category containers: name -> how many carry it
    nextChan,     \* ids handed out so far
    proc,         \* the coroutines: position and locals
    events,       \* external events so far
    limits,       \* how many events and channels this run may have
    happened,     \* per day: rows inserted, claims written, tickets closed
    last,         \* what the coroutine that ended most recently answered
    effects,      \* per channel: closure messages, DMs, transcripts made,
                  \* changes of closed from FALSE to TRUE, and the users who
                  \* read the channel when their last add passed its checks
    pool,         \* the global pool: NULL until create_db_pool has made it
    ready,        \* on_ready: its position, the loops it started, its locals
    ticket_setups,   \* table ticket_setups: channel_id -> message_id
    setup_messages   \* the setup channels of the guild: id -> messages in it

vars == <<members, users, tickets, transcripts, archived, stats,
          channels, categories, nextChan, proc, events, limits, last,
          happened, effects, pool, ready, ticket_setups, setup_messages>>

store == <<users, tickets, transcripts, archived, stats>>
guild == <<members, channels, categories, nextChan, limits>>
boot == <<pool, ready, ticket_setups, setup_messages>>

\* ------------------------------------------------------------- helpers
\* member.roles: s1 and s2 hold a staff role, u1 holds none
Roles(m) == IF m \in {"s1", "s2"} THEN {"CREW"} ELSE {}

\* a check that would let every member pass
is_staff_anyone(m) == m \in GuildMembers

is_staff(m) == \E role \in Roles(m) : role \in STAFF_ROLES

CategoryName(tt) == IF tt = "reportBug" THEN "Report Bug" ELSE "Other Issues"
CategoryNames == {CategoryName(tt) : tt \in TICKET_CATEGORIES} \cup {ArchiveName}

Drop(f, k) == [x \in (DOMAIN f) \ {k} |-> f[x]]

RECURSIVE array_remove(_, _)
array_remove(s, x) ==
    IF s = <<>> THEN <<>>
    ELSE IF Head(s) = x THEN array_remove(Tail(s), x)
    ELSE <<Head(s)>> \o array_remove(Tail(s), x)

array_append(s, x) == Append(s, x)

InArray(s, x) == \E i \in 1..Len(s) : s[i] = x

IdleRec ==
    [pc |-> "idle", op |-> "none", user |-> NULL, chan |-> 0, tt |-> NULL,
     tid |-> NULL, owner |-> NULL, url |-> NULL, target |-> NULL,
     batch |-> <<>>, selected |-> {}]

NoEffects == [closure |-> 0, dm |-> 0, transcript |-> 0, closings |-> 0, seen |-> {}]

\* INSERT ... ON CONFLICT (user_id) DO UPDATE of track_user
track_user(us, m) == us \cup {m}

\* INSERT ... ON CONFLICT (date) DO UPDATE SET x = ticket_stats.x + EXCLUDED.x
StatRow(action) ==
    [opened |-> IF action = "opened" THEN 1 ELSE 0,
     closed |-> IF action = "closed" THEN 1 ELSE 0,
     claimed |-> IF action = "claimed" THEN 1 ELSE 0]

log_ticket_stat(st, today, action) ==
    IF today \in DOMAIN st
    THEN [st EXCEPT ![today] =
            [opened |-> @.opened + StatRow(action).opened,
             closed |-> @.closed + StatRow(action).closed,
             claimed |-> @.claimed + StatRow(action).claimed]]
    ELSE st @@ (today :> StatRow(action))

\* the record of what happened: one more `action` on day `today`
Count(h, today, action) ==
    LET old == IF today \in DOMAIN h THEN h[today]
               ELSE [opened |-> 0, closed |-> 0, claimed |-> 0]
        new == [old EXCEPT ![action] = @ + 1]
    IN [d \in DOMAIN h \cup {today} |-> IF d = today THEN new ELSE h[d]]

\* SELECT channel_id FROM tickets WHERE user_id = $1 AND closed = FALSE
OpenTicketsOf(tk, u) == {c \in DOMAIN tk : tk[c].user_id = u /\ ~tk[c].closed}

\* SELECT ... FROM tickets WHERE channel_id = $1 AND closed = FALSE
IsOpenTicket(tk, c) == c \in DOMAIN tk /\ ~tk[c].closed

\* who reads the channel: a member overwrite decides first (allow or deny),
\* then the staff roles' overwrite the channel took from its category
Visible(ch, m) == m \in ch.allow \/ (is_staff(m) /\ m \notin ch.deny)

CanSee(m, c) == c \in DOMAIN channels /\ Visible(channels[c], m)

\* TicketControlView: the control message carries Close Ticket, and Claim
\* Ticket, Add User and Remove User when it was built with is_staff
TicketControlView(staff) == IF staff THEN "staff" ELSE "close"
HasButton(c, custom_id) ==
    /\ c \in DOMAIN channels
    /\ \/ channels[c].controls = "staff"
       \/ channels[c].controls = "close" /\ custom_id = "close_ticket"

Running == {p \in Procs : proc[p].pc \notin {"idle", "stopped"}}

\* the event loop gives a new handler the first task that is free
Free(t) ==
    /\ pool # NULL
    /\ Cardinality(Running) < MaxRunning
    /\ \E i \in DOMAIN TaskList :
        /\ TaskList[i] = t
        /\ proc[t].pc = "idle"
        /\ \A j \in 1..(i - 1) : proc[TaskList[j]].pc # "idle"

\* a handler returns: the task is free again, its answer is the last one given
Finish(p, out) == proc' = [proc EXCEPT ![p] = IdleRec] /\ last' = out

\* an exception leaves the coroutine.  A handler's exception is caught and
\* printed (create_ticket, handle_close_ticket, on_interaction); an exception
\* that leaves the body of a tasks.loop ends the loop for good
Stopped == [IdleRec EXCEPT !.pc = "stopped"]
Raise(p) ==
    IF p \in Tasks THEN Finish(p, "Error")
    ELSE proc' = [proc EXCEPT ![p] = Stopped] /\ last' = "LoopFailed"
Become(p, rec) == proc' = [proc EXCEPT ![p] = rec] /\ UNCHANGED last
\* a loop's task takes its next record, or its iteration is over
Continue(p, rec) ==
    /\ proc' = [proc EXCEPT ![p] = rec]
    /\ last' = IF rec.pc = "idle" THEN "SweepDone" ELSE last
Goto(p, label) == proc' = [proc EXCEPT ![p].pc = label] /\ UNCHANGED last

\* on_ready has returned: the pool is made, both loops are started, the setup
\* messages are seen to
Ready == [pc |-> "done", failed |-> FALSE, loops |-> {AC, DEL},
          setups |-> << >>, found |-> << >>]

\* an empty database and a guild without ticket channels
Fresh(maxEvents, maxChannels, population) ==
    /\ members = population
    /\ users = {}
    /\ tickets = << >>
    /\ transcripts = << >>
    /\ archived = << >>
    /\ stats = << >>
    /\ channels = << >>
    /\ categories = [n \in CategoryNames |-> 0]
    /\ nextChan = 0
    /\ proc = [p \in Procs |-> IdleRec]
    /\ events = 0
    /\ limits = [events |-> maxEvents, channels |-> maxChannels]
    /\ last = "none"
    /\ happened = << >>
    /\ effects = << >>

\* the state once on_ready has run on an empty database
Start(maxEvents, maxChannels, population) ==
    /\ Fresh(maxEvents, maxChannels, population)
    /\ pool = "open"
    /\ ready = Ready
    /\ ticket_setups = << >>
    /\ setup_messages = << >>

\* ------------------------------------------------------------ environment
\* A day passes, between the runs of the coroutines.  Every timestamp is one
\* day older; one the code can no longer
\* tell from an older one stays where it is: a last_activity already before
\* the cutoff, a delete_at already due.  Rows of ticket_stats older than
\* StatsDays leave the model: log_ticket_stat writes today's row only.
Oldest == NOW - INACTIVE_CLOSE_DAYS - 1
Older(ts, floor) == IF ts - 1 < floor THEN floor ELSE ts - 1

\* the rows of a table keyed by day, one day later
Yesterday(st) ==
    [d \in {x - 1 : x \in DOMAIN st} \cap ((NOW - StatsDays + 1)..NOW) |-> st[d + 1]]

\* a coroutine between two awaits is there for moments; only a wait for a
\* member's input (modal.wait, bot.wait_for) lasts
Waiting(p) == proc[p].pc \in {"idle", "stopped", "x_modal", "r_wait"}

Tick ==
    /\ \A p \in Procs : Waiting(p)
    /\ tickets' = [c \in DOMAIN tickets |->
                    [tickets[c] EXCEPT !.last_activity = Older(@, Oldest)]]
    /\ archived' = [c \in DOMAIN archived |->
                     [archived[c] EXCEPT !.delete_at = Older(@, NOW)]]
    /\ stats' = Yesterday(stats)
    /\ happened' = Yesterday(happened)
    /\ UNCHANGED <<users, transcripts, guild, boot, proc, events, last, effects>>

\* a guild administrator deletes a ticket channel by hand
ChannelDeleted(c) ==
    /\ events < limits.events
    /\ c \in DOMAIN channels
    /\ channels' = Drop(channels, c)
    /\ events' = events + 1
    /\ UNCHANGED <<store, members, categories, nextChan, limits, boot, proc, last, effects, happened>>

\* a member leaves the guild: guild.get_member returns None from then on
MemberLeaves(m) ==
    /\ events < limits.events
    /\ m \in members
    /\ members' = members \ {m}
    /\ events' = events + 1
    /\ UNCHANGED <<store, channels, categories, nextChan, limits, boot, proc, last, effects, happened>>

\* ---------------------------------------------------------- create_ticket
\* TicketTypeSelect.callback: defer, then create_ticket up to track_user
create_ticket_start(t, u, tt) ==
    /\ Free(t)
    /\ events < limits.events
    /\ u \in members
    /\ users' = track_user(users, u)
    /\ Become(t, [IdleRec EXCEPT !.pc = "c_check", !.op = "create",
                                  !.user = u, !.tt = tt])
    /\ events' = events + 1
    /\ UNCHANGED <<tickets, transcripts, archived, stats, guild, boot, effects, happened>>

\* fetchrow of one open ticket of the user (any one when there are several),
\* guild.get_channel on it, and generate_ticket_id once the connection is released
\* generate_ticket_id: random.choices over 36^8 strings.  Ids no row and no
\* coroutine holds are interchangeable, so the first of them stands for all
IdsInUse ==
    {tickets[c].ticket_id : c \in DOMAIN tickets}
    \cup {archived[c].ticket_id : c \in DOMAIN archived}
    \cup {proc[p].tid : p \in Procs}
    \cup UNION {{proc[p].batch[i].ticket_id : i \in DOMAIN proc[p].batch} : p \in Procs}

generate_ticket_id ==
    {TicketIds[i] : i \in {j \in DOMAIN TicketIds :
        \/ TicketIds[j] \in IdsInUse
        \/ \A k \in 1..(j - 1) : TicketIds[k] \in IdsInUse}}

create_ticket_proceed(t) ==
    \E id \in generate_ticket_id :
        Become(t, [proc[t] EXCEPT !.tid = id, !.pc = "c_cat"])

create_ticket_check(t) ==
    /\ proc[t].pc = "c_check"
    /\ LET open == OpenTicketsOf(tickets, proc[t].user) IN
       \/ /\ open = {}
          /\ create_ticket_proceed(t)
       \/ \E existing \in open :
            IF existing \in DOMAIN channels
            THEN Finish(t, "DuplicateOpenTicket")
            ELSE create_ticket_proceed(t)
    /\ UNCHANGED <<store, guild, boot, events, effects, happened>>

\* discord.utils.get(guild.categories, name=category_name)
create_ticket_cat(t) ==
    /\ proc[t].pc = "c_cat"
    /\ Goto(t, IF categories[CategoryName(proc[t].tt)] > 0 THEN "c_chan" ELSE "c_mkcat")
    /\ UNCHANGED <<store, guild, boot, events, effects, happened>>

\* guild.create_category and the set_permissions calls on the new container
create_ticket_mkcat(t) ==
    /\ proc[t].pc = "c_mkcat"
    /\ categories' = [categories EXCEPT ![CategoryName(proc[t].tt)] = @ + 1]
    /\ Goto(t, "c_chan")
    /\ UNCHANGED <<store, members, channels, nextChan, limits, boot, events, effects, happened>>

\* a variant that writes the row before the channel is confirmed
create_ticket_chan_row_first(t) ==
    /\ proc[t].pc = "c_chan"
    /\ tickets' = tickets @@
         ((nextChan + 1) :> [ticket_id |-> proc[t].tid, user_id |-> proc[t].user,
                             ticket_type |-> proc[t].tt, claimed_by |-> NULL,
                             closed |-> FALSE, last_activity |-> NOW,
                             additional_users |-> <<>>])
    /\ IF nextChan < limits.channels
       THEN /\ nextChan' = nextChan + 1
            /\ channels' = channels @@
                 (nextChan' :> [category |-> CategoryName(proc[t].tt),
                                allow |-> {}, deny |-> {}, controls |-> "none"])
            /\ effects' = effects @@ (nextChan' :> NoEffects)
            /\ Become(t, [proc[t] EXCEPT !.chan = nextChan', !.pc = "c_perm"])
       ELSE /\ Raise(t)
            /\ UNCHANGED <<nextChan, channels, effects>>
    /\ UNCHANGED <<users, transcripts, archived, stats, members, categories,
                   limits, boot, events, happened>>

\* guild.create_text_channel; the platform refuses (HTTPException) once the
\* guild holds as many channels as it allows
create_ticket_chan(t) ==
    /\ proc[t].pc = "c_chan"
    /\ IF nextChan < limits.channels
       THEN /\ nextChan' = nextChan + 1
            /\ channels' = channels @@
                 (nextChan' :> [category |-> CategoryName(proc[t].tt),
                                allow |-> {}, deny |-> {}, controls |-> "none"])
            /\ effects' = effects @@ (nextChan' :> NoEffects)
            /\ Become(t, [proc[t] EXCEPT !.chan = nextChan', !.pc = "c_perm"])
       ELSE /\ Raise(t)
            /\ UNCHANGED <<nextChan, channels, effects>>
    /\ UNCHANGED <<store, members, categories, limits, boot, events, happened>>

\* set_permissions(default_role) and set_permissions(user) on the new channel
create_ticket_perm(t) ==
    /\ proc[t].pc = "c_perm"
    /\ IF proc[t].chan \in DOMAIN channels
       THEN /\ channels' = [channels EXCEPT ![proc[t].chan].allow =
                                @ \cup {proc[t].user}]
            /\ Goto(t, "c_insert")
       ELSE /\ Raise(t)
            /\ UNCHANGED channels
    /\ UNCHANGED <<store, members, categories, nextChan, limits, boot, events, effects, happened>>

\* INSERT INTO tickets: channel_id is the key, ticket_id is UNIQUE
NewTicket(tid, u, tt, t) ==
    [ticket_id |-> tid, user_id |-> u, ticket_type |-> tt, claimed_by |-> NULL,
     closed |-> FALSE, last_activity |-> t, additional_users |-> <<>>]

\* a table without the UNIQUE constraint on ticket_id
TicketIdNeverTaken(tk, tid) == FALSE

TicketIdTaken(tk, tid) == \E c \in DOMAIN tk : tk[c].ticket_id = tid

create_ticket_insert(t) ==
    /\ proc[t].pc = "c_insert"
    /\ IF TicketIdTaken(tickets, proc[t].tid) \/ proc[t].chan \in DOMAIN tickets
          \/ proc[t].user \notin users
       THEN /\ Raise(t)
            /\ UNCHANGED <<tickets, happened>>
       ELSE /\ tickets' = tickets @@
                 (proc[t].chan :> NewTicket(proc[t].tid, proc[t].user, proc[t].tt, NOW))
            /\ happened' = Count(happened, NOW, "opened")
            /\ Goto(t, "c_log")
    /\ UNCHANGED <<users, transcripts, archived, stats, guild, boot, events, effects>>

create_ticket_log(t) ==
    /\ proc[t].pc = "c_log"
    /\ stats' = log_ticket_stat(stats, NOW, "opened")
    /\ Goto(t, "c_welcome")
    /\ UNCHANGED <<users, tickets, transcripts, archived, guild, boot, events, effects, happened>>

\* ticket_channel.send, control_msg.pin and the followup
create_ticket_welcome(t) ==
    /\ proc[t].pc = "c_welcome"
    /\ IF proc[t].chan \in DOMAIN channels
       THEN /\ channels' = [channels EXCEPT ![proc[t].chan].controls =
                                TicketControlView(is_staff(proc[t].user))]
            /\ Finish(t, "Created")
       ELSE /\ Raise(t)
            /\ UNCHANGED channels
    /\ UNCHANGED <<store, members, categories, nextChan, limits, boot, events, effects, happened>>

create_ticket(t) ==
    \/ \E u \in members, tt \in TICKET_CATEGORIES : create_ticket_start(t, u, tt)
    \/ create_ticket_check(t)
    \/ create_ticket_cat(t)
    \/ create_ticket_mkcat(t)
    \/ create_ticket_chan(t)
    \/ create_ticket_perm(t)
    \/ create_ticket_insert(t)
    \/ create_ticket_log(t)
    \/ create_ticket_welcome(t)

\* ------------------------------------------------- the closing sequence
\* handle_close_ticket from create_transcript on, and the body of the loop of
\* auto_close_tickets: the same calls in the same order, p the coroutine

\* rows of a set in some order: the order of a SELECT without ORDER BY
Orders(S) == {q \in [1..Cardinality(S) -> S] : \A i, j \in 1..Cardinality(S) :
                                                    q[i] = q[j] => i = j}

\* for ticket in inactive_tickets: guild.get_channel, and `if channel`
\* `selected` keeps the channels of the rows the SELECT returned
RECURSIVE AcAdvance(_, _, _)
AcAdvance(batch, chans, selected) ==
    IF batch = <<>> THEN IdleRec
    ELSE IF Head(batch).channel_id \in chans
    THEN [IdleRec EXCEPT !.pc = "x_tr_read", !.op = "autoclose", !.user = Bot,
                         !.chan = Head(batch).channel_id,
                         !.tid = Head(batch).ticket_id,
                         !.owner = Head(batch).user_id,
                         !.batch = Tail(batch),
                         !.selected = selected]
    ELSE AcAdvance(Tail(batch), chans, selected)

\* the closing sequence is over: the handler goes on to the control message,
\* the loop to its next ticket
CloseDone(p) ==
    IF p \in Tasks THEN Goto(p, "x_buttons")
    ELSE Continue(p, AcAdvance(proc[p].batch, DOMAIN channels, proc[p].selected))

\* create_transcript: fetchrow of the ticket's header; ticket_info[...] raises
\* TypeError when the row is gone
close_tr_read(p) ==
    /\ proc[p].pc = "x_tr_read"
    /\ IF proc[p].chan \in DOMAIN tickets THEN Goto(p, "x_tr_hist") ELSE Raise(p)
    /\ UNCHANGED <<store, guild, boot, events, effects, happened>>

\* a variant in which a failed upload raises out of create_transcript
close_tr_hist_fatal(p) ==
    /\ proc[p].pc = "x_tr_hist"
    /\ IF proc[p].chan \in DOMAIN channels
       THEN /\ \E paste_url \in {"url", NULL} :
                 IF paste_url = NULL THEN Raise(p)
                 ELSE Become(p, [proc[p] EXCEPT !.url = paste_url, !.pc = "x_tr_store"])
            /\ effects' = [effects EXCEPT ![proc[p].chan].transcript = @ + 1]
       ELSE /\ Raise(p)
            /\ UNCHANGED effects
    /\ UNCHANGED <<store, guild, boot, events, happened>>

\* create_transcript: channel.history (NotFound when the channel is gone), then
\* upload_to_pastebin, which returns the URL or None
close_tr_hist(p) ==
    /\ proc[p].pc = "x_tr_hist"
    /\ IF proc[p].chan \in DOMAIN channels
       THEN /\ \E paste_url \in {"url", NULL} :
                 Become(p, [proc[p] EXCEPT !.url = paste_url,
                              !.pc = IF paste_url # NULL THEN "x_tr_store"
                                     ELSE "x_send"])
            /\ effects' = [effects EXCEPT ![proc[p].chan].transcript = @ + 1]
       ELSE /\ Raise(p)
            /\ UNCHANGED effects
    /\ UNCHANGED <<store, guild, boot, events, happened>>

\* create_transcript: `if paste_url:` INSERT INTO transcripts ... ON CONFLICT
\* (channel_id) DO UPDATE; channel_id REFERENCES tickets(channel_id)
UpsertTranscript(tr, c, paste_url, closer) ==
    IF c \in DOMAIN tr
    THEN [tr EXCEPT ![c] = [paste_url |-> paste_url, closed_by |-> closer]]
    ELSE tr @@ (c :> [paste_url |-> paste_url, closed_by |-> closer])

close_tr_store(p) ==
    /\ proc[p].pc = "x_tr_store"
    /\ IF proc[p].chan \in DOMAIN tickets
       THEN /\ transcripts' = UpsertTranscript(transcripts, proc[p].chan,
                                               proc[p].url, proc[p].user)
            /\ Goto(p, "x_send")
       ELSE /\ Raise(p)
            /\ UNCHANGED transcripts
    /\ UNCHANGED <<users, tickets, archived, stats, guild, boot, events, effects, happened>>

\* after an await of the sequence: discord.utils.get(guild.categories,
\* name="Archived Tickets"), evaluated without a further await
ArchiveLookup == IF categories[ArchiveName] > 0 THEN "x_move" ELSE "x_mkarch"

\* channel.send(embed=embed), then guild.get_member(ticket['user_id'])
close_send(p) ==
    /\ proc[p].pc = "x_send"
    /\ IF proc[p].chan \in DOMAIN channels
       THEN /\ effects' = [effects EXCEPT ![proc[p].chan].closure = @ + 1]
            /\ Goto(p, IF proc[p].owner \in members THEN "x_dm" ELSE ArchiveLookup)
       ELSE /\ Raise(p)
            /\ UNCHANGED effects
    /\ UNCHANGED <<store, guild, boot, events, happened>>

\* creator.send(embed=dm_embed); discord.Forbidden is caught
close_dm(p) ==
    /\ proc[p].pc = "x_dm"
    /\ effects' = [effects EXCEPT ![proc[p].chan].dm = @ + 1]
    /\ Goto(p, ArchiveLookup)
    /\ UNCHANGED <<store, guild, boot, events, happened>>

\* guild.create_category("Archived Tickets")
close_mkarch(p) ==
    /\ proc[p].pc = "x_mkarch"
    /\ categories' = [categories EXCEPT ![ArchiveName] = @ + 1]
    /\ Goto(p, "x_move")
    /\ UNCHANGED <<store, members, channels, nextChan, limits, boot, events, effects, happened>>

\* channel.edit(category=archive_category) and set_permissions(default_role)
close_move(p) ==
    /\ proc[p].pc = "x_move"
    /\ IF proc[p].chan \in DOMAIN channels
       THEN /\ channels' = [channels EXCEPT ![proc[p].chan].category = ArchiveName]
            /\ Goto(p, "x_update")
       ELSE /\ Raise(p)
            /\ UNCHANGED channels
    /\ UNCHANGED <<store, members, categories, nextChan, limits, boot, events, effects, happened>>

\* a faulty variant: UPDATE tickets SET closed = NOT closed
SetClosedToggled(tk, c) ==
    IF c \in DOMAIN tk THEN [tk EXCEPT ![c].closed = ~@] ELSE tk

\* UPDATE tickets SET closed = TRUE WHERE channel_id = $1
SetClosed(tk, c) == IF c \in DOMAIN tk THEN [tk EXCEPT ![c].closed = TRUE] ELSE tk

close_update(p) ==
    /\ proc[p].pc = "x_update"
    /\ tickets' = SetClosed(tickets, proc[p].chan)
    /\ IF IsOpenTicket(tickets, proc[p].chan) /\ ~IsOpenTicket(tickets', proc[p].chan)
       THEN /\ happened' = Count(happened, NOW, "closed")
            /\ effects' = [effects EXCEPT ![proc[p].chan].closings = @ + 1]
       ELSE UNCHANGED <<happened, effects>>
    /\ Goto(p, "x_insert")
    /\ UNCHANGED <<users, transcripts, archived, stats, guild, boot, events>>

\* INSERT INTO archived_tickets (channel_id, ticket_id, delete_at): channel_id
\* is the key, a second row for it raises UniqueViolationError
close_insert(p) ==
    /\ proc[p].pc = "x_insert"
    /\ IF proc[p].chan \in DOMAIN archived
       THEN /\ Raise(p)
            /\ UNCHANGED archived
       ELSE /\ archived' = archived @@
                 (proc[p].chan :> [ticket_id |-> proc[p].tid,
                                   delete_at |-> NOW + ARCHIVE_DELETE_DAYS])
            /\ Goto(p, "x_log")
    /\ UNCHANGED <<users, tickets, transcripts, stats, guild, boot, events, effects, happened>>

\* await log_ticket_stat("closed")
close_log(p) ==
    /\ proc[p].pc = "x_log"
    /\ stats' = log_ticket_stat(stats, NOW, "closed")
    /\ CloseDone(p)
    /\ UNCHANGED <<users, tickets, transcripts, archived, guild, boot, events, effects, happened>>

close_sequence(p) ==
    \/ close_tr_read(p)
    \/ close_tr_hist(p)
    \/ close_tr_store(p)
    \/ close_send(p)
    \/ close_dm(p)
    \/ close_mkarch(p)
    \/ close_move(p)
    \/ close_update(p)
    \/ close_insert(p)
    \/ close_log(p)

\* ---------------------------------------------------- handle_close_ticket
\* the button's interaction: fetchrow of the open ticket of the channel, the
\* permission check, and send_modal (staff) or defer (owner)
handle_close_ticket_start(t, u, c) ==
    /\ Free(t)
    /\ events < limits.events
    /\ u \in members
    /\ CanSee(u, c)
    /\ HasButton(c, "close_ticket")
    /\ events' = events + 1
    /\ IF ~IsOpenTicket(tickets, c)
       THEN Finish(t, "NotOpenTicket")
       ELSE IF ~(is_staff(u) \/ u = tickets[c].user_id)
       THEN Finish(t, "NoPermission")
       ELSE Become(t,
                [IdleRec EXCEPT !.pc = IF is_staff(u) THEN "x_modal" ELSE "x_tr_read",
                                !.op = "close", !.user = u, !.chan = c,
                                !.tid = tickets[c].ticket_id,
                                !.owner = tickets[c].user_id])
    /\ UNCHANGED <<store, guild, boot, effects, happened>>

\* modal.wait() returns when the reason is submitted (CloseReasonModal.on_submit)
handle_close_ticket_modal(t) ==
    /\ proc[t].pc = "x_modal"
    /\ Goto(t, "x_tr_read")
    /\ UNCHANGED <<store, guild, boot, events, effects, happened>>

\* channel.history(limit=10) and message.edit(view=None): the control message
\* loses its buttons when it is among the last ten messages of the channel
handle_close_ticket_buttons(t) ==
    /\ proc[t].pc = "x_buttons"
    /\ IF proc[t].chan \in DOMAIN channels
       THEN /\ \E found \in BOOLEAN :
                 channels' = [channels EXCEPT ![proc[t].chan].controls =
                                 IF found THEN "none" ELSE @]
            /\ Finish(t, "Closed")
       ELSE /\ Raise(t)
            /\ UNCHANGED channels
    /\ UNCHANGED <<store, members, categories, nextChan, limits, boot, events, effects, happened>>

handle_close_ticket(t) ==
    \/ \E u \in members, c \in DOMAIN channels : handle_close_ticket_start(t, u, c)
    \/ handle_close_ticket_modal(t)
    \/ close_sequence(t)
    \/ handle_close_ticket_buttons(t)

\* ---------------------------------------------------- handle_claim_ticket
\* the button's interaction: track_user, then the is_staff check
handle_claim_ticket_start(t, u, c) ==
    /\ Free(t)
    /\ events < limits.events
    /\ u \in members
    /\ CanSee(u, c)
    /\ HasButton(c, "claim_ticket")
    /\ events' = events + 1
    /\ users' = track_user(users, u)
    /\ IF ~is_staff(u)
       THEN Finish(t, "ClaimNoPermission")
       ELSE Become(t, [IdleRec EXCEPT !.pc = "k_check", !.op = "claim",
                                      !.user = u, !.chan = c])
    /\ UNCHANGED <<tickets, transcripts, archived, stats, guild, boot, effects, happened>>

\* fetchrow of the open ticket and the claimed_by checks;
\* guild.get_member(claimed_by).mention raises when the claimant has left
handle_claim_ticket_check(t) ==
    /\ proc[t].pc = "k_check"
    /\ LET c == proc[t].chan IN
       IF ~IsOpenTicket(tickets, c) THEN Finish(t, "ClaimNotOpenTicket")
       ELSE IF tickets[c].claimed_by # NULL
       THEN IF tickets[c].claimed_by = proc[t].user
            THEN Finish(t, "AlreadyClaimedBySelf")
            ELSE IF tickets[c].claimed_by \in members
            THEN Finish(t, "AlreadyClaimedByOther")
            ELSE Raise(t)
       ELSE Goto(t, "k_update")
    /\ UNCHANGED <<store, guild, boot, events, effects, happened>>

\* UPDATE tickets SET claimed_by = $1 WHERE channel_id = $2
SetClaimedBy(tk, c, u) ==
    IF c \in DOMAIN tk THEN [tk EXCEPT ![c].claimed_by = u] ELSE tk

handle_claim_ticket_update(t) ==
    /\ proc[t].pc = "k_update"
    /\ tickets' = SetClaimedBy(tickets, proc[t].chan, proc[t].user)
    /\ happened' = Count(happened, NOW, "claimed")
    /\ Goto(t, "k_log")
    /\ UNCHANGED <<users, transcripts, archived, stats, guild, boot, events, effects>>

\* log_ticket_stat("claimed") and the embed that announces the claim
handle_claim_ticket_log(t) ==
    /\ proc[t].pc = "k_log"
    /\ stats' = log_ticket_stat(stats, NOW, "claimed")
    /\ Finish(t, "Claimed")
    /\ UNCHANGED <<users, tickets, transcripts, archived, guild, boot, events, effects, happened>>

handle_claim_ticket(t) ==
    \/ \E u \in members, c \in DOMAIN channels : handle_claim_ticket_start(t, u, c)
    \/ handle_claim_ticket_check(t)
    \/ handle_claim_ticket_update(t)
    \/ handle_claim_ticket_log(t)

\* ----------------------------------------------------- add_user_to_ticket
\* AddUserModal.on_submit (get_member of the input) and add_user_to_ticket up to
\* its checks
add_user_to_ticket_start(t, u, c, target) ==
    /\ Free(t)
    /\ events < limits.events
    /\ u \in members
    /\ CanSee(u, c)
    /\ HasButton(c, "add_user")
    /\ events' = events + 1
    /\ IF target \notin members THEN Finish(t, "AddInvalidUser")
       ELSE IF ~IsOpenTicket(tickets, c) THEN Finish(t, "AddNotOpenTicket")
       ELSE IF target = tickets[c].user_id
               \/ InArray(tickets[c].additional_users, target)
       THEN Finish(t, "AlreadyHasAccess")
       ELSE Become(t, [IdleRec EXCEPT !.pc = "a_update", !.op = "add", !.user = u,
                                      !.chan = c, !.target = target])
    /\ effects' = IF proc'[t].pc = "a_update"
                  THEN [effects EXCEPT ![c].seen = IF CanSee(target, c)
                                                   THEN @ \cup {target}
                                                   ELSE @ \ {target}]
                  ELSE effects
    /\ UNCHANGED <<store, guild, boot, happened>>

\* UPDATE tickets SET additional_users = array_append(additional_users, $1)
AppendUser(tk, c, m) ==
    IF c \in DOMAIN tk
    THEN [tk EXCEPT ![c].additional_users = array_append(@, m)] ELSE tk

add_user_to_ticket_update(t) ==
    /\ proc[t].pc = "a_update"
    /\ tickets' = AppendUser(tickets, proc[t].chan, proc[t].target)
    /\ Goto(t, "a_perm")
    /\ UNCHANGED <<users, transcripts, archived, stats, guild, boot, events, effects, happened>>

\* channel.set_permissions(user, read_messages=True, send_messages=True)
add_user_to_ticket_perm(t) ==
    /\ proc[t].pc = "a_perm"
    /\ IF proc[t].chan \in DOMAIN channels
       THEN /\ channels' = [channels EXCEPT
                 ![proc[t].chan].allow = @ \cup {proc[t].target},
                 ![proc[t].chan].deny = @ \ {proc[t].target}]
            /\ Finish(t, "Added")
       ELSE /\ Raise(t)
            /\ UNCHANGED channels
    /\ UNCHANGED <<store, members, categories, nextChan, limits, boot, events, effects, happened>>

add_user_to_ticket(t) ==
    \/ \E u \in members, c \in DOMAIN channels, target \in GuildMembers :
         add_user_to_ticket_start(t, u, c, target)
    \/ add_user_to_ticket_update(t)
    \/ add_user_to_ticket_perm(t)

\* ------------------------------------------------ remove_user_from_ticket
\* handle_remove_user_interaction: the prompt is sent, bot.wait_for('message',
\* timeout=60) begins
handle_remove_user_interaction(t, u, c) ==
    /\ Free(t)
    /\ events < limits.events
    /\ u \in members
    /\ CanSee(u, c)
    /\ HasButton(c, "remove_user")
    /\ events' = events + 1
    /\ Become(t, [IdleRec EXCEPT !.pc = "r_wait", !.op = "remove",
                                  !.user = u, !.chan = c])
    /\ UNCHANGED <<store, guild, boot, effects, happened>>

\* a timeout that would take the requester's own access with it
remove_user_timeout_revoking(t) ==
    /\ proc[t].pc = "r_wait"
    /\ proc[t].chan \in DOMAIN channels
    /\ channels' = [channels EXCEPT ![proc[t].chan].allow = @ \ {proc[t].user},
                                    ![proc[t].chan].deny = @ \cup {proc[t].user}]
    /\ Finish(t, "TimedOut")
    /\ UNCHANGED <<store, members, categories, nextChan, limits, boot, events, effects, happened>>

\* asyncio.TimeoutError after 60 seconds without a message
remove_user_timeout(t) ==
    /\ proc[t].pc = "r_wait"
    /\ Finish(t, "TimedOut")
    /\ UNCHANGED <<store, guild, boot, events, effects, happened>>

\* the requester's message arrives: get_member of its content, then
\* remove_user_from_ticket up to its checks
remove_user_from_ticket_check(t, target) ==
    /\ proc[t].pc = "r_wait"
    /\ proc[t].user \in members
    /\ CanSee(proc[t].user, proc[t].chan)
    /\ LET c == proc[t].chan IN
       IF target \notin members THEN Finish(t, "RemoveInvalidUser")
       ELSE IF ~IsOpenTicket(tickets, c) THEN Finish(t, "RemoveNotOpenTicket")
       ELSE IF target = tickets[c].user_id THEN Finish(t, "CannotRemoveOwner")
       ELSE IF ~InArray(tickets[c].additional_users, target)
       THEN Finish(t, "NotAParticipant")
       ELSE Become(t, [proc[t] EXCEPT !.pc = "r_update", !.target = target])
    /\ UNCHANGED <<store, guild, boot, events, effects, happened>>

\* UPDATE tickets SET additional_users = array_remove(additional_users, $1)
RemoveUser(tk, c, m) ==
    IF c \in DOMAIN tk
    THEN [tk EXCEPT ![c].additional_users = array_remove(@, m)] ELSE tk

remove_user_from_ticket_update(t) ==
    /\ proc[t].pc = "r_update"
    /\ tickets' = RemoveUser(tickets, proc[t].chan, proc[t].target)
    /\ Goto(t, "r_perm")
    /\ UNCHANGED <<users, transcripts, archived, stats, guild, boot, events, effects, happened>>

\* channel.set_permissions(user, read_messages=False, send_messages=False)
remove_user_from_ticket_perm(t) ==
    /\ proc[t].pc = "r_perm"
    /\ IF proc[t].chan \in DOMAIN channels
       THEN /\ channels' = [channels EXCEPT
                 ![proc[t].chan].allow = @ \ {proc[t].target},
                 ![proc[t].chan].deny = @ \cup {proc[t].target}]
            /\ Finish(t, "Removed")
       ELSE /\ Raise(t)
            /\ UNCHANGED channels
    /\ UNCHANGED <<store, members, categories, nextChan, limits, boot, events, effects, happened>>

remove_user_from_ticket(t) ==
    \/ \E u \in members, c \in DOMAIN channels : handle_remove_user_interaction(t, u, c)
    \/ remove_user_timeout(t)
    \/ \E target \in GuildMembers : remove_user_from_ticket_check(t, target)
    \/ remove_user_from_ticket_update(t)
    \/ remove_user_from_ticket_perm(t)

\* ------------------------------------------------------------- on_message
\* a member's message in a channel: SELECT EXISTS(... WHERE channel_id = $1)
on_message_start(t, author, c) ==
    /\ Free(t)
    /\ events < limits.events
    /\ author \in members
    /\ CanSee(author, c)
    /\ events' = events + 1
    /\ IF c \in DOMAIN tickets
       THEN Become(t, [IdleRec EXCEPT !.pc = "m_track", !.op = "message",
                                      !.user = author, !.chan = c])
       ELSE Finish(t, "NotATicketChannel")
    /\ UNCHANGED <<store, guild, boot, effects, happened>>

on_message_track(t) ==
    /\ proc[t].pc = "m_track"
    /\ users' = track_user(users, proc[t].user)
    /\ Goto(t, "m_update")
    /\ UNCHANGED <<tickets, transcripts, archived, stats, guild, boot, events, effects, happened>>

\* UPDATE tickets SET last_activity = NOW() WHERE channel_id = $1
SetLastActivity(tk, c, t) ==
    IF c \in DOMAIN tk THEN [tk EXCEPT ![c].last_activity = t] ELSE tk

on_message_update(t) ==
    /\ proc[t].pc = "m_update"
    /\ tickets' = SetLastActivity(tickets, proc[t].chan, NOW)
    /\ Finish(t, "ActivityRecorded")
    /\ UNCHANGED <<users, transcripts, archived, stats, guild, boot, events, effects, happened>>

on_message(t) ==
    \/ \E author \in members, c \in DOMAIN channels : on_message_start(t, author, c)
    \/ on_message_track(t)
    \/ on_message_update(t)

\* ----------------------------------------------------- auto_close_tickets
\* SELECT channel_id, user_id, ticket_id FROM tickets
\* WHERE closed = FALSE AND last_activity < $1
InactiveTickets(tk, cutoff) ==
    {c \in DOMAIN tk : ~tk[c].closed /\ tk[c].last_activity < cutoff}

AcRow(c) == [channel_id |-> c, user_id |-> tickets[c].user_id,
             ticket_id |-> tickets[c].ticket_id]

\* one iteration of the loop begins: the cutoff, the SELECT, the first ticket
auto_close_tickets_select ==
    /\ AC \in ready.loops
    /\ pool # NULL
    /\ proc[AC].pc = "idle"
    /\ Cardinality(Running) < MaxRunning
    /\ LET inactive == InactiveTickets(tickets, NOW - INACTIVE_CLOSE_DAYS) IN
       /\ inactive # {}
       /\ \E order \in Orders(inactive) :
            Continue(AC, AcAdvance([i \in 1..Len(order) |-> AcRow(order[i])],
                                   DOMAIN channels, inactive))
    /\ UNCHANGED <<store, guild, boot, events, effects, happened>>

auto_close_tickets ==
    \/ auto_close_tickets_select
    \/ close_sequence(AC)

\* ------------------------------------------------ delete_archived_tickets
\* SELECT channel_id, ticket_id FROM archived_tickets WHERE delete_at <= NOW()
DueArchives(ar, t) == {c \in DOMAIN ar : ar[c].delete_at <= t}

\* for ticket in tickets_to_delete: bot.get_channel, and `if channel`
DelAdvance(batch, chans, selected) ==
    IF batch = <<>> THEN IdleRec
    ELSE [IdleRec EXCEPT !.pc = IF Head(batch).channel_id \in chans
                                THEN "d_chan" ELSE "d_del_arch",
                         !.op = "delete", !.user = Bot,
                         !.chan = Head(batch).channel_id,
                         !.tid = Head(batch).ticket_id,
                         !.batch = Tail(batch),
                         !.selected = selected]

delete_archived_tickets_select ==
    /\ DEL \in ready.loops
    /\ pool # NULL
    /\ proc[DEL].pc = "idle"
    /\ Cardinality(Running) < MaxRunning
    /\ LET due == DueArchives(archived, NOW) IN
       /\ due # {}
       /\ \E order \in Orders(due) :
            Continue(DEL, DelAdvance([i \in 1..Len(order) |->
                                        [channel_id |-> order[i],
                                         ticket_id |-> archived[order[i]].ticket_id]],
                                     DOMAIN channels, due))
    /\ UNCHANGED <<store, guild, boot, events, effects, happened>>

\* channel.delete(); discord.NotFound is passed over
delete_archived_tickets_chan ==
    /\ proc[DEL].pc = "d_chan"
    /\ channels' = Drop(channels, proc[DEL].chan)
    /\ Goto(DEL, "d_del_arch")
    /\ UNCHANGED <<store, members, categories, nextChan, limits, boot, events, effects, happened>>

\* DELETE FROM archived_tickets WHERE channel_id = $1
delete_archived_tickets_archive ==
    /\ proc[DEL].pc = "d_del_arch"
    /\ archived' = Drop(archived, proc[DEL].chan)
    /\ Goto(DEL, "d_del_tkt")
    /\ UNCHANGED <<users, tickets, transcripts, stats, guild, boot, events, effects, happened>>

\* DELETE FROM tickets WHERE ticket_id = $1; transcripts.channel_id REFERENCES
\* tickets(channel_id) without ON DELETE, so a referenced row cannot be deleted
DeleteTicket(tk, tid) == [c \in {x \in DOMAIN tk : tk[x].ticket_id # tid} |-> tk[c]]

Referenced(tk, tr, tid) == \E c \in DOMAIN tk : tk[c].ticket_id = tid /\ c \in DOMAIN tr

delete_archived_tickets_ticket ==
    /\ proc[DEL].pc = "d_del_tkt"
    /\ IF Referenced(tickets, transcripts, proc[DEL].tid)
       THEN /\ Raise(DEL)
            /\ UNCHANGED tickets
       ELSE /\ tickets' = DeleteTicket(tickets, proc[DEL].tid)
            /\ Continue(DEL, DelAdvance(proc[DEL].batch, DOMAIN channels,
                                             proc[DEL].selected))
    /\ UNCHANGED <<users, transcripts, archived, stats, guild, boot, events, effects, happened>>

delete_archived_tickets ==
    \/ delete_archived_tickets_select
    \/ delete_archived_tickets_chan
    \/ delete_archived_tickets_archive
    \/ delete_archived_tickets_ticket

\* ---------------------------------------------------------------- on_ready
\* startup(): create_db_pool, then init_db.  Either may raise; on_ready
\* prints the exception and goes on.  When create_db_pool raised, pool is
\* still None; when init_db raised, the pool is there
StartupOutcomes == {"ok", "no_pool", "no_schema"}

on_ready_startup ==
    /\ ready.pc = "startup"
    /\ \E out \in StartupOutcomes :
        /\ pool' = IF out = "no_pool" THEN NULL ELSE "open"
        /\ ready' = [ready EXCEPT !.pc = "sync", !.failed = (out # "ok")]
    /\ UNCHANGED <<store, guild, proc, events, last, effects, happened,
                   ticket_setups, setup_messages>>

\* bot.tree.sync(), auto_close_tickets.start(), delete_archived_tickets.start()
on_ready_start_loops ==
    /\ ready.pc = "sync"
    /\ ready' = [ready EXCEPT !.pc = "restore", !.loops = {AC, DEL}]
    /\ UNCHANGED <<store, guild, proc, events, last, effects, happened,
                   pool, ticket_setups, setup_messages>>

\* restore_ticket_views: SELECT channel_id, message_id FROM ticket_setups.
\* Without a pool, pool.acquire() raises and on_ready is over
restore_ticket_views_fetch ==
    /\ ready.pc = "restore"
    /\ IF pool = NULL
       THEN ready' = [ready EXCEPT !.pc = "raised"]
       ELSE \E order \in Orders(DOMAIN ticket_setups) :
              ready' = [ready EXCEPT
                          !.pc = IF order = << >> THEN "done" ELSE "restore_item",
                          !.setups = [i \in 1..Len(order) |->
                                        [channel_id |-> order[i],
                                         message_id |-> ticket_setups[order[i]]]],
                          !.found = [pointers |-> ticket_setups,
                                     messages |-> setup_messages]]
    /\ UNCHANGED <<store, guild, proc, events, last, effects, happened,
                   pool, ticket_setups, setup_messages>>

\* message.edit(view=TicketView())
EditView(msgs, c, mid) ==
    [msgs EXCEPT ![c][mid] = [components |-> TRUE, edits |-> @.edits + 1]]

\* one setup of the loop: bot.get_channel; fetch_message; message.edit, or
\* DELETE FROM ticket_setups on discord.NotFound
restore_ticket_views_item ==
    /\ ready.pc = "restore_item"
    /\ LET setup == Head(ready.setups)
           c == setup.channel_id
           mid == setup.message_id
       IN /\ IF c \notin DOMAIN setup_messages
             THEN UNCHANGED <<ticket_setups, setup_messages>>
             ELSE IF mid \notin DOMAIN setup_messages[c]
             THEN /\ ticket_setups' = Drop(ticket_setups, c)
                  /\ UNCHANGED setup_messages
             ELSE /\ setup_messages' = EditView(setup_messages, c, mid)
                  /\ UNCHANGED ticket_setups
          /\ ready' = [ready EXCEPT
                         !.pc = IF Tail(ready.setups) = << >> THEN "done"
                                ELSE "restore_item",
                         !.setups = Tail(ready.setups)]
    /\ UNCHANGED <<store, guild, proc, events, last, effects, happened, pool>>

on_ready ==
    \/ on_ready_startup
    \/ on_ready_start_loops
    \/ restore_ticket_views_fetch
    \/ restore_ticket_views_item

\* with pool = None, the first pool.acquire() of a loop's body raises
\* AttributeError and the loop is over
loop_without_pool(p) ==
    /\ p \in ready.loops
    /\ pool = NULL
    /\ proc[p].pc = "idle"
    /\ Raise(p)
    /\ UNCHANGED <<store, guild, boot, events, effects, happened>>

\* with pool = None, a member's interaction raises at the handler's first
\* pool.acquire(); the exception is printed
handler_without_pool(t) ==
    /\ pool = NULL
    /\ events < limits.events
    /\ proc[t].pc = "idle"
    /\ events' = events + 1
    /\ Finish(t, "Error")
    /\ UNCHANGED <<store, guild, boot, effects, happened>>

\* the process dies and is started again: every coroutine is gone with its
\* locals, on_ready runs anew and starts both loops, whose first iteration
\* begins at once.  The database and the guild are as the crash left them
Crash ==
    /\ events < limits.events
    /\ events' = events + 1
    /\ proc' = [p \in Procs |-> IdleRec]
    /\ last' = "Crashed"
    /\ UNCHANGED <<store, guild, boot, effects, happened>>

\* ------------------------------------------------------------------ system
Environment ==
    \/ Tick
    \/ \E c \in DOMAIN channels : ChannelDeleted(c)
    \/ \E m \in members : MemberLeaves(m)

\* every operation and both loops, around one ticket channel
Next ==
    \/ Environment
    \/ \E t \in Tasks : create_ticket(t)
    \/ \E t \in Tasks : handle_close_ticket(t)
    \/ \E t \in Tasks : handle_claim_ticket(t)
    \/ \E t \in Tasks : add_user_to_ticket(t)
    \/ \E t \in Tasks : remove_user_from_ticket(t)
    \/ \E t \in Tasks : on_message(t)
    \/ auto_close_tickets
    \/ delete_archived_tickets

Init == Start(MaxEvents, MaxChannelsAll, {"u1", "s1"})
Spec == Init /\ [][Next]_vars

\* panel selections and Close buttons, with an administrator deleting channels
NextCreate ==
    \/ \E c \in DOMAIN channels : ChannelDeleted(c)
    \/ \E t \in Tasks : create_ticket(t)
    \/ \E t \in Tasks : handle_close_ticket(t)

InitCreate == Start(MaxEvents, MaxChannels, {"u1", "s1"})
SpecCreate == InitCreate /\ [][NextCreate]_vars

\* Claim buttons pressed by two staff members who may leave the guild
NextClaim ==
    \/ \E m \in members : MemberLeaves(m)
    \/ \E t \in Tasks : create_ticket(t)
    \/ \E t \in Tasks : handle_claim_ticket(t)
    \/ \E t \in Tasks : handle_close_ticket(t)

InitClaim == Start(MaxClaimEvents, MaxChannelsAll, GuildMembers)
SpecClaim == InitClaim /\ [][NextClaim]_vars

\* the two loops over the days, with messages, manual closes and deleted channels
NextSweep ==
    \/ Tick
    \/ \E c \in DOMAIN channels : ChannelDeleted(c)
    \/ \E t \in Tasks : create_ticket(t)
    \/ \E t \in Tasks : on_message(t)
    \/ \E t \in Tasks : handle_close_ticket(t)
    \/ auto_close_tickets
    \/ delete_archived_tickets

InitSweep == Start(MaxEvents, MaxChannels, {"u1", "s1"})
SpecSweep == InitSweep /\ [][NextSweep]_vars

\* everything that writes ticket_stats, over the days
NextStats ==
    \/ Tick
    \/ \E t \in Tasks : create_ticket(t)
    \/ \E t \in Tasks : handle_claim_ticket(t)
    \/ \E t \in Tasks : handle_close_ticket(t)
    \/ auto_close_tickets

InitStats == Start(MaxEvents, MaxChannels, {"u1", "s1"})
SpecStats == InitStats /\ [][NextStats]_vars

\* Add User and Remove User, with closes and members who leave
NextParticipants ==
    \/ \E m \in members : MemberLeaves(m)
    \/ \E t \in Tasks : create_ticket(t)
    \/ \E t \in Tasks : add_user_to_ticket(t)
    \/ \E t \in Tasks : remove_user_from_ticket(t)
    \/ \E t \in Tasks : handle_close_ticket(t)

InitParticipants == Start(MaxClaimEvents, MaxChannelsAll, GuildMembers)
SpecParticipants == InitParticipants /\ [][NextParticipants]_vars

\* the process starts: the database holds the ticket_setups of earlier runs,
\* and the guild what is left of the messages they point to
SetupChannels == {"p1", "p2"}
MessageIds == {"m1"}
Messages == [components : BOOLEAN, edits : {0}]
Partial(D, R) == UNION {[S -> R] : S \in SUBSET D}

NextStartup ==
    \/ on_ready
    \/ \E p \in {AC, DEL} : loop_without_pool(p)
    \/ \E t \in Tasks : handler_without_pool(t)
    \/ \E t \in Tasks : create_ticket(t)

InitStartup ==
    /\ Fresh(MaxStartupEvents, MaxChannelsAll, {"u1"})
    /\ pool = NULL
    /\ ready = [Ready EXCEPT !.pc = "startup", !.loops = {}]
    /\ ticket_setups \in Partial(SetupChannels, MessageIds)
    /\ setup_messages \in Partial(SetupChannels, Partial(MessageIds, Messages))

SpecStartup == InitStartup /\ [][NextStartup]_vars

\* the two loops, with a process that may crash and restart
NextCrash ==
    \/ Tick
    \/ Crash
    \/ \E t \in Tasks : create_ticket(t)
    \/ auto_close_tickets
    \/ delete_archived_tickets

InitCrash == Start(MaxCrashEvents, MaxChannelsAll, {"u1"})
SpecCrash == InitCrash /\ [][NextCrash]_vars

\* the handlers that wait for a member, under the scheduling of the event
\* loop: a coroutine whose await does not wait for a member is resumed, and
\* bot.wait_for(timeout=60) ends by its timeout; whether a member ever clicks,
\* submits a form or writes is up to the member
Resumes(t) ==
    \/ create_ticket_check(t)
    \/ create_ticket_cat(t)
    \/ create_ticket_mkcat(t)
    \/ create_ticket_chan(t)
    \/ create_ticket_perm(t)
    \/ create_ticket_insert(t)
    \/ create_ticket_log(t)
    \/ create_ticket_welcome(t)
    \/ close_sequence(t)
    \/ handle_close_ticket_buttons(t)
    \/ add_user_to_ticket_update(t)
    \/ add_user_to_ticket_perm(t)
    \/ remove_user_timeout(t)
    \/ remove_user_from_ticket_update(t)
    \/ remove_user_from_ticket_perm(t)

NextWait ==
    \/ \E t \in Tasks : create_ticket(t)
    \/ \E t \in Tasks : handle_close_ticket(t)
    \/ \E t \in Tasks : add_user_to_ticket(t)
    \/ \E t \in Tasks : remove_user_from_ticket(t)

InitWait == Start(MaxEvents, MaxChannelsAll, {"s1", "s2"})
SpecWait == InitWait /\ [][NextWait]_vars /\ \A t \in Tasks : WF_vars(Resumes(t))

\* ------------------------------------------------------------- properties
\* C1: at every moment each user owns at most one ticket row with
\* closed = FALSE, whatever the interleaving: concurrent create requests of
\* one user, or a create request after the ticket's channel went missing
C1_AtMostOneOpenTicket ==
    \A u \in GuildMembers : Cardinality(OpenTicketsOf(tickets, u)) <= 1

\* C2: a create request that finds an open ticket row of its user in the
\* store ends with the duplicate outcome, and channels, categories, the
\* tickets table and the opened counter stay as they were
C2_DuplicateRejected ==
    [][\A t \in Tasks :
         (/\ proc[t].pc = "c_check"
          /\ proc'[t] # proc[t]
          /\ OpenTicketsOf(tickets, proc[t].user) # {})
         => (/\ last' = "DuplicateOpenTicket"
             /\ proc'[t].pc = "idle"
             /\ channels' = channels
             /\ categories' = categories
             /\ tickets' = tickets
             /\ stats' = stats)]_vars

\* C3: a claim that fails a precondition changes nothing: on a claimed
\* ticket the requester is told AlreadyClaimedBySelf when they are the
\* claimant and AlreadyClaimedByOther when another staff member is; a claim
\* by a non-staff user or on a channel without an open ticket is rejected;
\* claimed_by and the claimed counter stay as they were
C3_RejectedClaimChangesNothing ==
    [][\A t \in Tasks :
         /\ (proc[t].pc = "k_check" /\ proc'[t] # proc[t])
            => LET c == proc[t].chan
                   u == proc[t].user
                   rejected(out) == /\ last' = out
                                    /\ proc'[t].pc = "idle"
                                    /\ tickets' = tickets
                                    /\ stats' = stats
               IN /\ ~IsOpenTicket(tickets, c) => rejected("ClaimNotOpenTicket")
                  /\ (IsOpenTicket(tickets, c) /\ tickets[c].claimed_by = u)
                     => rejected("AlreadyClaimedBySelf")
                  /\ (IsOpenTicket(tickets, c) /\ tickets[c].claimed_by \notin {NULL, u})
                     => rejected("AlreadyClaimedByOther")
         /\ \A u \in members, c \in DOMAIN channels :
              (handle_claim_ticket_start(t, u, c) /\ ~is_staff(u))
              => (last' = "ClaimNoPermission" /\ tickets' = tickets /\ stats' = stats)]_vars

\* C4: claimed_by, once set, is never overwritten while the row lives, and
\* the claimed counter grows by one per claimed ticket: of two staff members
\* claiming the same unclaimed ticket at once, one succeeds
C4_ClaimedOnce ==
    [][/\ \A c \in DOMAIN tickets \cap DOMAIN tickets' :
            tickets[c].claimed_by # NULL
            => tickets'[c].claimed_by = tickets[c].claimed_by
       /\ NOW \in DOMAIN stats'
          => stats'[NOW].claimed
               <= Cardinality({c \in DOMAIN tickets' : tickets'[c].claimed_by # NULL})]_vars

\* C5: once a close of a ticket has completed, a further close on the same
\* channel is rejected as not an open ticket, and the store holds one
\* transcripts row and one archived_tickets row for the channel
C5_SecondCloseRejected ==
    [][\A t \in Tasks, u \in members, c \in DOMAIN channels :
         (/\ handle_close_ticket_start(t, u, c)
          /\ c \in DOMAIN tickets
          /\ tickets[c].closed
          /\ \A p \in Closers : proc[p].chan # c)
         => (/\ last' = "NotOpenTicket"
             /\ c \in DOMAIN transcripts
             /\ c \in DOMAIN archived)]_vars

\* C6: of two closes of one open ticket that overlap in time, one performs
\* the effects and the other is rejected: for each channel the transcript is
\* generated once, the closure message is sent once and closed changes once
C6_CloseEffectsOnce ==
    \A c \in DOMAIN effects :
        /\ effects[c].transcript <= 1
        /\ effects[c].closure <= 1
        /\ effects[c].closings <= 1

\* C7: for every ticket row, closed goes from FALSE to TRUE at most once and
\* never from TRUE back to FALSE, whatever operations and loops run
C7_ClosedOnceForGood ==
    [][/\ \A c \in DOMAIN tickets \cap DOMAIN tickets' :
            tickets[c].closed => tickets'[c].closed
       /\ \A c \in DOMAIN tickets' :
            /\ effects'[c].closings <= 1
            /\ ~tickets'[c].closed => effects'[c].closings = 0]_vars

\* a second closer ran its UPDATE on a row that was closed already and
\* stopped at the INSERT into archived_tickets
C7_Witness ==
    \E c \in DOMAIN tickets :
        /\ tickets[c].closed
        /\ effects[c].closings = 1
        /\ effects[c].closure = 2
        /\ last = "Error"
        /\ Running = {}

\* C8: a run of the inactivity loop takes the open tickets whose last_activity
\* is more than INACTIVE_CLOSE_DAYS old; when the run ends each of them whose
\* channel exists is closed; and no step of the run changes an open ticket
\* that was within the threshold: its row stays as it is and it gets no
\* archived_tickets row
C8_SweepClosesStaleOnly ==
    [][/\ (proc[AC].pc = "idle" /\ proc'[AC].pc \notin {"idle", "stopped"})
          => proc'[AC].selected =
               {c \in DOMAIN tickets : /\ ~tickets[c].closed
                                        /\ NOW - tickets[c].last_activity > INACTIVE_CLOSE_DAYS}
       /\ (proc[AC].pc \notin {"idle", "stopped"} /\ proc'[AC].pc \in {"idle", "stopped"})
          => \A c \in proc[AC].selected :
                (c \in DOMAIN channels' /\ c \in DOMAIN tickets')
                => tickets'[c].closed
       /\ proc'[AC] # proc[AC]
          => \A c \in DOMAIN tickets \ (proc[AC].selected \cup proc'[AC].selected) :
                ~tickets[c].closed
                => (/\ c \in DOMAIN tickets'
                    /\ tickets'[c] = tickets[c]
                    /\ (c \in DOMAIN archived') = (c \in DOMAIN archived))]_vars

\* C9: a run of the deletion loop takes the archived_tickets rows with
\* delete_at <= now; when the run ends each of them is gone together with
\* the tickets row and the channel, with or without a transcripts row and
\* with or without the channel at the start; rows not yet due and their
\* tickets are not changed by any step of the run
C9_DueArchivesRemoved ==
    [][/\ (proc[DEL].pc = "idle" /\ proc'[DEL].pc \notin {"idle", "stopped"})
          => proc'[DEL].selected = {c \in DOMAIN archived : archived[c].delete_at <= NOW}
       /\ (proc[DEL].pc \notin {"idle", "stopped"} /\ proc'[DEL].pc \in {"idle", "stopped"})
          => \A c \in proc[DEL].selected :
                /\ c \notin DOMAIN archived'
                /\ c \notin DOMAIN tickets'
                /\ c \notin DOMAIN channels'
       /\ proc'[DEL] # proc[DEL]
          => \A c \in DOMAIN archived \ (proc[DEL].selected \cup proc'[DEL].selected) :
                /\ c \in DOMAIN archived' /\ archived'[c] = archived[c]
                /\ c \in DOMAIN tickets => (c \in DOMAIN tickets' /\ tickets'[c] = tickets[c])]_vars

\* C10: the daily counters are additive and exact.  Whenever no coroutine is
\* in flight, each day's row of ticket_stats equals what happened that day:
\* opened the tickets inserted, claimed the claims written, closed the tickets
\* that went from open to closed, by hand or by the loop; in between a
\* counter is never ahead of what happened; within a day no counter
\* decreases; and a day with nothing but rejected operations has no row
C10_CountersExact ==
    [][/\ Running' = {} => stats' = happened'
       /\ \A d \in DOMAIN stats' :
            /\ d \in DOMAIN happened'
            /\ \A a \in {"opened", "claimed", "closed"} : stats'[d][a] <= happened'[d][a]
       /\ ~Tick => \A d \in DOMAIN stats :
                      /\ d \in DOMAIN stats'
                      /\ \A a \in {"opened", "claimed", "closed"} : stats'[d][a] >= stats[d][a]]_vars

\* C11: for an open ticket and a user who was neither owner nor participant,
\* an add followed by a remove of that user gives back what was there before
\* the add: the user is not in additional_users and reads the channel exactly
\* if they did before; also when the add was issued twice at once
C11_AddRemoveRoundTrip ==
    [][\A t \in Tasks :
         (/\ proc[t].pc = "r_perm"
          /\ proc'[t].pc = "idle"
          /\ last' = "Removed"
          /\ \A q \in Tasks : ~(/\ proc[q].op = "add"
                                 /\ proc[q].chan = proc[t].chan
                                 /\ proc[q].target = proc[t].target))
         => LET c == proc[t].chan
                m == proc[t].target
            IN /\ c \in DOMAIN tickets' => ~InArray(tickets'[c].additional_users, m)
               /\ Visible(channels'[c], m) = (m \in effects[c].seen)]_vars

\* C12: once restore_ticket_views has gone through the setups on_ready found,
\* for each pointer found: its message (or the channel) is gone and the
\* pointer is deleted; or the message had lost its component and has it
\* again; or the message had its component and neither pointer nor message
\* was touched.  Every pointer left points to a message that exists
C12_SetupsReconciled ==
    (ready.pc = "done" /\ DOMAIN ready.found # {}) =>
        /\ \A c \in DOMAIN ready.found.pointers :
             LET mid == ready.found.pointers[c]
                 before == ready.found.messages
                 existed == c \in DOMAIN before /\ mid \in DOMAIN before[c]
             IN /\ ~existed => c \notin DOMAIN ticket_setups
                /\ (existed /\ ~before[c][mid].components)
                      => setup_messages[c][mid].components
                /\ (existed /\ before[c][mid].components)
                      => /\ c \in DOMAIN ticket_setups
                         /\ ticket_setups[c] = mid
                         /\ setup_messages[c][mid] = before[c][mid]
        /\ \A c \in DOMAIN ticket_setups :
             /\ c \in DOMAIN setup_messages
             /\ ticket_setups[c] \in DOMAIN setup_messages[c]

\* C13: a record whose processing fails does not end a sweep: neither loop
\* ever leaves its body through an exception, which would leave the other
\* records of the run unprocessed and end the loop, so that no later period
\* runs it again
C13_SweepsSurviveFailures ==
    \A p \in {AC, DEL} : proc[p].pc # "stopped"

\* C14: when a crash cuts a sweep between two of its steps, the runs after the
\* restart finish the records that were not done and repeat nothing: no
\* channel gets a second transcript, closure message, DM or a second change
\* of closed, and once no coroutine is at work no ticket is left closed
\* without its archived_tickets row
C14_CrashedSweepResumes ==
    /\ \A c \in DOMAIN effects :
         /\ effects[c].transcript <= 1
         /\ effects[c].closure <= 1
         /\ effects[c].dm <= 1
         /\ effects[c].closings <= 1
    /\ (\A p \in Procs : proc[p].pc = "idle")
         => \A c \in DOMAIN tickets : tickets[c].closed => c \in DOMAIN archived

\* C15: when startup() failed (no pool, or init_db raised), on_ready goes no
\* further: no loop is started, restore_ticket_views is not run and no
\* handler works on the database
C15_FailedStartupStops ==
    ready.failed =>
        /\ ready.loops = {}
        /\ ready.pc = "sync"
        /\ \A t \in Tasks : proc[t].pc = "idle"

\* C16: a handler that waits for a member's input (the close-reason form,
\* the removal prompt) does not wait forever: it goes on or its wait times out
C16_WaitsAreBounded ==
    \A t \in Tasks :
        (proc[t].pc \in {"x_modal", "r_wait"})
            ~> (proc[t].pc \notin {"x_modal", "r_wait"})

\* C17: a participant operation that is rejected changes nothing: an add
\* answered AlreadyHasAccess, not an open ticket or invalid user, a removal
\* answered CannotRemoveOwner, NotAParticipant, not an open ticket or invalid
\* user, and a removal prompt that timed out leave additional_users of every
\* ticket and every member's reading of every channel as they were
C17_RejectedLeavesTicket ==
    [][LET AddRejections == {"AddInvalidUser", "AddNotOpenTicket", "AlreadyHasAccess"}
           RemoveRejections == {"RemoveInvalidUser", "RemoveNotOpenTicket",
                                "CannotRemoveOwner", "NotAParticipant", "TimedOut"}
           rejectedAdd == /\ events' = events + 1
                          /\ members' = members
                          /\ proc' = proc
                          /\ last' \in AddRejections
           rejectedRemove == \E t \in Tasks : /\ proc[t].pc = "r_wait"
                                              /\ proc'[t].pc = "idle"
                                              /\ last' \in RemoveRejections
       IN (rejectedAdd \/ rejectedRemove)
          => /\ \A c \in DOMAIN tickets :
                  /\ c \in DOMAIN tickets'
                  /\ tickets'[c].additional_users = tickets[c].additional_users
             /\ \A c \in DOMAIN channels :
                  /\ c \in DOMAIN channels'
                  /\ \A m \in GuildMembers :
                       Visible(channels'[c], m) = Visible(channels[c], m)]_vars

\* an add was refused for a ticket that has a participant
C17_Witness ==
    /\ last = "AlreadyHasAccess"
    /\ \E c \in DOMAIN tickets : /\ ~tickets[c].closed
                                 /\ tickets[c].additional_users # << >>

\* C18: a member's close goes ahead only for staff or the owner of the
\* ticket: the request of anyone else ends at once with NoPermission and
\* leaves the tickets, transcripts and archived_tickets rows, the channels and
\* the counters as they were, and every handler inside a close was started
\* by a member holding a staff role or by the owner
C18_CloseNeedsStaffOrOwner ==
    [][/\ (/\ last' = "NoPermission"
           /\ events' = events + 1
           /\ proc' = proc
           /\ members' = members)
          => /\ tickets' = tickets
             /\ transcripts' = transcripts
             /\ archived' = archived
             /\ channels' = channels
             /\ stats' = stats
       /\ \A t \in Tasks :
            proc'[t].op = "close"
            => \/ Roles(proc'[t].user) \cap STAFF_ROLES # {}
               \/ proc'[t].user = proc'[t].owner]_vars

\* a participant who is neither staff nor owner asked to close an open ticket
C18_Witness ==
    /\ last = "NoPermission"
    /\ \E c \in DOMAIN tickets : /\ ~tickets[c].closed
                                 /\ InArray(tickets[c].additional_users, "u1")
                                 /\ tickets[c].user_id # "u1"

\* C19: the life of a ticket goes create, claim (or none), close, archive,
\* delete.  A tickets row leaves the table only in the DELETE of the loop
\* delete_archived_tickets, for a closed ticket whose due archived_tickets row
\* the run selected; claimed_by is written only while the ticket is open;
\* and no claim or close is completed for a ticket whose row is gone
C19_LifecycleOrder ==
    [][/\ \A c \in DOMAIN tickets :
            c \notin DOMAIN tickets'
            => /\ proc[DEL].pc = "d_del_tkt"
               /\ proc'[DEL] # proc[DEL]
               /\ tickets[c].closed
               /\ c \in proc[DEL].selected
       /\ \A c \in DOMAIN tickets \cap DOMAIN tickets' :
            tickets'[c].claimed_by # tickets[c].claimed_by => ~tickets[c].closed
       /\ \A t \in Tasks :
            (proc[t].pc \in {"k_update", "x_update"} /\ proc'[t] # proc[t])
            => proc[t].chan \in DOMAIN tickets]_vars

\* C20: a close sets closed before it moves the channel: no channel is in the
\* category Archived Tickets while the row of its ticket has closed = FALSE,
\* during the close as well as after a close that failed on the way
C20_ArchivedChannelIsClosed ==
    \A c \in DOMAIN channels \cap DOMAIN tickets :
        channels[c].category = ArchiveName => tickets[c].closed

\* C21: every ticket that is closed has its transcripts row, keyed by the
\* channel and carrying who closed it; a failed upload gives a row whose
\* paste_url is NULL, never a missing row
C21_ClosedHasTranscript ==
    \A c \in DOMAIN tickets :
        tickets[c].closed
        => /\ c \in DOMAIN transcripts
           /\ transcripts[c].closed_by \in GuildMembers \cup {Bot}

\* C22: an upload that gives no URL does not abort the close.  With the
\* channel there, create_transcript returns and the close goes on to the
\* closure message; and a close without URL, by a member or by the loop, that
\* reaches its last step leaves closed = TRUE, the channel in Archived
\* Tickets, the archived_tickets row and one more in today's closed counter
C22_UploadFailureDoesNotAbort ==
    [][\A p \in Closers :
         /\ (/\ proc[p].pc = "x_tr_hist"
             /\ proc'[p] # proc[p]
             /\ proc[p].chan \in DOMAIN channels)
            => /\ proc'[p].pc \in {"x_tr_store", "x_send"}
               /\ proc'[p].url = NULL => proc'[p].pc = "x_send"
         /\ (/\ proc[p].pc = "x_log"
             /\ proc'[p] # proc[p]
             /\ proc[p].url = NULL)
            => LET c == proc[p].chan IN
               /\ c \in DOMAIN tickets' /\ tickets'[c].closed
               /\ c \in DOMAIN archived'
               /\ c \in DOMAIN channels' => channels'[c].category = ArchiveName
               /\ NOW \in DOMAIN stats'
               /\ stats'[NOW].closed =
                    (IF NOW \in DOMAIN stats THEN stats[NOW].closed ELSE 0) + 1]_vars

\* a member's close has got through without URL: its ticket is closed and
\* archived, and has no transcripts row
C22_Witness ==
    /\ \E t \in Tasks : /\ proc[t].pc = "x_buttons"
                        /\ proc[t].url = NULL
                        /\ tickets[proc[t].chan].closed
    /\ \E c \in DOMAIN tickets : /\ tickets[c].closed
                                 /\ c \in DOMAIN archived
                                 /\ c \notin DOMAIN transcripts
                                 /\ effects[c].closure = 1

\* C23: the inactivity loop treats a ticket as it is when its turn comes:
\* the loop sets closed, inserts the archived_tickets row and counts a close
\* only for a ticket that at that moment is still open and still has a
\* last_activity more than INACTIVE_CLOSE_DAYS old
C23_SweepRechecksTicket ==
    [][(/\ proc[AC].pc \in {"x_update", "x_insert", "x_log"}
        /\ proc'[AC] # proc[AC]
        /\ proc[AC].chan \in DOMAIN tickets)
       => LET row == tickets[proc[AC].chan] IN
          /\ NOW - row.last_activity > INACTIVE_CLOSE_DAYS
          /\ proc[AC].pc = "x_update" => ~row.closed]_vars

\* C24: a closed ticket is left alone: once closed = TRUE, no step changes
\* claimed_by or additional_users of the row, nor who reads its channel
C24_ClosedTicketFrozen ==
    [][\A c \in DOMAIN tickets \cap DOMAIN tickets' :
         tickets[c].closed
         => /\ tickets'[c].claimed_by = tickets[c].claimed_by
            /\ tickets'[c].additional_users = tickets[c].additional_users
            /\ (c \in DOMAIN channels /\ c \in DOMAIN channels')
                 => \A m \in GuildMembers :
                      Visible(channels'[c], m) = Visible(channels[c], m)]_vars

\* C25: the container of a ticket category and the container Archived
\* Tickets are created once each: the guild never holds two containers of
\* one name
C25_OneContainerPerName ==
    \A n \in CategoryNames : categories[n] <= 1

\* C26: the row and the opened counter come after the channel.  A tickets
\* row is inserted only by a create that holds the channel the guild made
\* for it; opened is incremented only by a create whose row is inserted; a
\* create that fails changes neither the table nor the counters, and when
\* it is the INSERT that failed the channel is still there, without row
C26_RowAfterChannel ==
    [][/\ \A c \in DOMAIN tickets' \ DOMAIN tickets :
            /\ c \in 1..nextChan
            /\ \E t \in Tasks : proc[t].pc = "c_insert" /\ proc[t].chan = c
       /\ (LET opened(st) == IF NOW \in DOMAIN st THEN st[NOW].opened ELSE 0
           IN opened(stats') # opened(stats))
            => \E t \in Tasks : /\ proc[t].pc = "c_log"
                                /\ proc'[t].pc = "c_welcome"
                                /\ proc[t].chan \in DOMAIN tickets
       /\ \A t \in Tasks :
            (proc[t].op = "create" /\ proc'[t].pc = "idle" /\ last' = "Error")
            => /\ tickets' = tickets
               /\ stats' = stats
               /\ (proc[t].pc = "c_insert" /\ proc[t].chan \in DOMAIN channels)
                    => /\ proc[t].chan \in DOMAIN channels'
                       /\ proc[t].chan \notin DOMAIN tickets']_vars

\* a create has failed at its INSERT: the channel made for it is there, with
\* its permissions set and without row
C26_Witness ==
    /\ last = "Error"
    /\ \A t \in Tasks : proc[t].pc = "idle"
    /\ \E c \in DOMAIN channels : c \notin DOMAIN tickets /\ channels[c].allow # {}

\* C27: ticket_id is unique and fixed.  No two tickets rows share a
\* ticket_id, the ticket_id of a row never changes, and an INSERT whose
\* generated id is that of an existing row is refused: the table stays as it
\* is and the create ends without a row
C27_TicketIdUnique ==
    [][/\ \A c1, c2 \in DOMAIN tickets' :
            c1 # c2 => tickets'[c1].ticket_id # tickets'[c2].ticket_id
       /\ \A c \in DOMAIN tickets \cap DOMAIN tickets' :
            tickets'[c].ticket_id = tickets[c].ticket_id
       /\ \A t \in Tasks :
            (/\ proc[t].pc = "c_insert"
             /\ proc'[t] # proc[t]
             /\ \E c \in DOMAIN tickets : tickets[c].ticket_id = proc[t].tid)
            => /\ tickets' = tickets
               /\ last' = "Error"
               /\ proc'[t].pc = "idle"]_vars

\* two creates drew the same id: one has its row, the other was refused and
\* left its channel without row
C27_Witness ==
    /\ last = "Error"
    /\ \A t \in Tasks : proc[t].pc = "idle"
    /\ \E c \in DOMAIN tickets, d \in DOMAIN channels \ DOMAIN tickets :
         /\ d # c
         /\ tickets[c].ticket_id = TicketIds[1]
         /\ channels[d].allow # {}

\* ------------------------------------------------- messages and activity
\* on_message is called for every message the bot receives, its own (the
\* welcome, the closing notice) and those of other bot accounts included:
\* if message.author.bot: return
on_message_bot(t, c) ==
    /\ Free(t)
    /\ events < limits.events
    /\ c \in DOMAIN channels
    /\ events' = events + 1
    /\ Finish(t, "Ignored")
    /\ UNCHANGED <<store, guild, boot, effects, happened>>

\* the messages of members and of bots in a ticket's channel, over the days,
\* with claims and closes
NextActivity ==
    \/ Tick
    \/ \E t \in Tasks : create_ticket(t)
    \/ \E t \in Tasks : on_message(t)
    \/ \E t \in Tasks, c \in DOMAIN channels : on_message_bot(t, c)
    \/ \E t \in Tasks : handle_claim_ticket(t)
    \/ \E t \in Tasks : handle_close_ticket(t)

InitActivity == Start(MaxEvents, MaxChannelsAll, {"u1", "s1"})
SpecActivity == InitActivity /\ [][NextActivity]_vars

\* C28: last_activity follows the messages and nothing else.  The
\* last_activity of a row changes only when a day passes (every timestamp is
\* then one day older) or when on_message writes NOW(), the latest time there
\* is; and the handling of every message received in the channel of a ticket
\* ends with the row's last_activity at the time of the message
C28_ActivityFollowsMessages ==
    [][/\ \A c \in DOMAIN tickets \cap DOMAIN tickets' :
            tickets'[c].last_activity # tickets[c].last_activity
            => \/ tickets'[c].last_activity = Older(tickets[c].last_activity, Oldest)
               \/ /\ tickets'[c].last_activity = NOW
                  /\ \E t \in Tasks : /\ proc[t].pc = "m_update"
                                       /\ proc[t].chan = c
       /\ \A t \in Tasks :
            (/\ proc[t].op = "message"
             /\ proc'[t].pc = "idle"
             /\ proc[t].chan \in DOMAIN tickets')
            => tickets'[proc[t].chan].last_activity = NOW
       /\ \A t \in Tasks, c \in DOMAIN tickets :
            on_message_bot(t, c) => tickets'[c].last_activity = NOW]_vars

\* ------------------------------------------------------ the connection pool
\* asyncpg.create_pool(..., max_size=10): pool.acquire() gives a connection
\* when one is free and waits otherwise; `async with` gives it back at the end
\* of its block.  MaxConnections stands for max_size, as MaxRunning stands for
\* the number of handlers the event loop runs at a time.
\* A coroutine holds a connection between two of its steps when both are in
\* one `async with pool.acquire()` block: the whole of handle_close_ticket
\* after its fetchrow, the UPDATE of a claim, the UPDATE and set_permissions
\* of an add or a remove, the INSERT of the inactivity loop after its UPDATE,
\* the second DELETE of the deletion loop after the first
Holds(p) ==
    \/ p \in Tasks /\ proc[p].op = "close" /\ proc[p].pc # "idle"
    \/ proc[p].pc \in {"k_update", "a_update", "a_perm", "r_update", "r_perm",
                       "x_insert", "d_del_tkt"}

Holding == {p \in Procs : Holds(p)}
InUse == Cardinality(Holding)

\* the next step of the coroutine starts with a pool.acquire(): the first
\* statement of a handler or of a loop's run, track_user, log_ticket_stat,
\* the blocks of create_transcript, and every `async with` block that follows
\* one that was left
Acquires(p) ==
    \/ proc[p].pc \in {"idle", "c_check", "c_insert", "c_log", "k_check", "k_log",
                       "m_track", "m_update", "x_tr_read", "x_tr_store", "x_log",
                       "d_del_arch"}
    \/ p \notin Tasks /\ proc[p].pc = "x_update"

\* the step waits in pool.acquire() until a connection is free
Admitted(p) == Acquires(p) => InUse < MaxConnections

\* closes, creates, messages and the two loops over a pool of MaxConnections
NextPool ==
    \/ Tick
    \/ \E t \in Tasks : Admitted(t) /\ create_ticket(t)
    \/ \E t \in Tasks : Admitted(t) /\ handle_close_ticket(t)
    \/ \E t \in Tasks : Admitted(t) /\ on_message(t)
    \/ Admitted(AC) /\ auto_close_tickets
    \/ Admitted(DEL) /\ delete_archived_tickets

InitPool == Start(MaxEvents, MaxChannelsAll, {"u1", "s1"})
SpecPool == InitPool /\ [][NextPool]_vars

\* C29: the pool is never exhausted by coroutines that cannot go on.  In no
\* state is every connection of the pool held by a handler that waits in
\* pool.acquire() for a further connection or in modal.wait() for a member
C29_PoolNeverStarved ==
    ~(/\ InUse = MaxConnections
      /\ \A p \in Holding : Acquires(p) \/ proc[p].pc = "x_modal")

\* C30: archive consistency.  Whenever no handler and no loop is in the
\* middle of an operation, a tickets row is closed exactly when an
\* archived_tickets row with its channel_id exists, and every
\* archived_tickets row belongs to a tickets row
C30_ClosedIffArchived ==
    (\A p \in Procs : proc[p].pc \in {"idle", "stopped"})
    => /\ \A c \in DOMAIN tickets : tickets[c].closed <=> c \in DOMAIN archived
       /\ \A c \in DOMAIN archived : c \in DOMAIN tickets

\* ------------------------------------------------ the loops in the long run
\* members open and close tickets while the days pass and both
\* loops run.  The process keeps running: a day passes when nothing else
\* does, tasks.loop calls each loop's body again at its period, and the event
\* loop resumes every coroutine whose await does not wait for a member.  A
\* staff member who was shown the reason form is taken to submit it, so that
\* no close stays in modal.wait()
NextEventually ==
    \/ Tick
    \/ \E t \in Tasks : create_ticket(t)
    \/ \E t \in Tasks : handle_close_ticket(t)
    \/ auto_close_tickets
    \/ delete_archived_tickets

InitEventually == Start(MaxEvents, MaxChannelsAll, {"u1", "s1"})
SpecEventually ==
    /\ InitEventually
    /\ [][NextEventually]_vars
    /\ WF_vars(Tick)
    /\ WF_vars(auto_close_tickets)
    /\ WF_vars(delete_archived_tickets)
    /\ \A t \in Tasks : WF_vars(Resumes(t))
    /\ \A t \in Tasks : WF_vars(handle_close_ticket_modal(t))

\* C31: both loops get their work done.  Every closed ticket eventually has
\* neither its tickets row nor its archived_tickets row, every open ticket
\* whose channel exists and in which nobody writes is eventually closed, and
\* a loop that an exception has stopped does not stay stopped
C31_LoopsFinishTheirWork ==
    /\ \A c \in 1..MaxChannelsAll :
         (c \in DOMAIN tickets /\ tickets[c].closed)
             ~> (c \notin DOMAIN tickets /\ c \notin DOMAIN archived)
    /\ \A c \in 1..MaxChannelsAll :
         (c \in DOMAIN tickets /\ ~tickets[c].closed /\ c \in DOMAIN channels)
             ~> (c \notin DOMAIN tickets \/ tickets[c].closed)
    /\ \A p \in {AC, DEL} : (proc[p].pc = "stopped") ~> (proc[p].pc # "stopped")

====
